---- MODULE Spec2Model ----
(***************************************************************************)
(* Model of src/src/ParseBKM.cpp: creating and parsing of .bkm files that  *)
(* hold an alternative bookmarks (outline) view of a document.             *)
(*                                                                         *)
(* Text is a sequence of one-character strings; a std::string_view is the  *)
(* sequence of the characters it still covers.  Titles are ASCII, so the   *)
(* UTF-8 and the wide form of a title hold the same code units.            *)
(* Outline nodes live in a heap `nodes` (a sequence of records); a pointer *)
(* is an index into it and 0 is nullptr.                                   *)
(***************************************************************************)
EXTENDS Integers, Sequences, FiniteSets, TLC

VARIABLES
    pc,         \* position of the load / export call chain
    disk,       \* contents of the .bkm file
    sv,         \* parseBookmarks: the part of the buffer not yet consumed
    file,       \* parseBookmarks: value of the "file" header (local)
    items,      \* parseBookmarks: Vec<DocTocItemWithIndent>
    i,          \* parseBookmarks: index of the reconstruction loop (0-based)
    nodes,      \* heap of DocTocItem
    dels,       \* how many times each DocTocItem was deleted
    tree,       \* the DocTocTree of parseBookmarks, NoTree before `new`
    treeDels,   \* how many times the DocTocTree was deleted
    res,        \* LoadAlterenativeBookmarks: the Vec<Bookmarks*> (NoVec: none)
    ret,        \* what LoadAlterenativeBookmarks returned
    bookmarks,  \* a collection held by the application (export source)
    line,       \* line parser: the line under test
    titleOut,   \* line parser: result of parseLineTitle
    itemOut,    \* line parser: result of parseBookmarksLine
    inp         \* how the input was built (never read by the program)

vars == <<pc, disk, sv, file, items, i, nodes, dels, tree, treeDels, res, ret,
          bookmarks, line, titleOut, itemOut, inp>>

(***************************************************************************)
(* Bounds of the model                                                     *)
(***************************************************************************)
MaxEntries == 5      \* entry lines of a document with even indentation
MaxLevel == 2        \* deepest indent level of such an entry
MaxBadEntries == 3   \* entry lines of a document with arbitrary headers
MaxSpaces == 3       \* leading spaces of such an entry (odd ones included)
MaxRawLen == 4       \* length of a raw line given to the line parser
MaxStrLen == 3       \* length of a string given to the quoted-string codec
MaxTokens == 2       \* metadata tokens on a line given to the line parser
MaxTreeNodes == 3    \* nodes of a tree given to the serializer

(***************************************************************************)
(* Text helpers                                                            *)
(***************************************************************************)
\* nullptr, a result not yet there, no tree, no collection: records, so that
\* each compares with the records that stand for the objects
Null == [null |-> TRUE]
SP == " "
NL == "\n"
QUOTE == "\""
BSLASH == "\\"

RECURSIVE Spaces(_)
Spaces(n) == IF n = 0 THEN << >> ELSE <<SP>> \o Spaces(n - 1)

RECURSIVE SeqsUpTo(_, _)
\* every sequence over S of length 0..n
SeqsUpTo(S, n) ==
    IF n = 0 THEN {<< >>}
    ELSE LET shorter == SeqsUpTo(S, n - 1)
         IN shorter \cup {Append(q, x) : q \in shorter, x \in S}

IsPrefix(p, s) == Len(p) <= Len(s) /\ SubSeq(s, 1, Len(p)) = p

Digits == <<"0", "1", "2", "3", "4", "5", "6", "7", "8", "9">>
HexDigits == <<"0", "1", "2", "3", "4", "5", "6", "7", "8", "9",
               "a", "b", "c", "d", "e", "f">>

RECURSIVE FmtD(_)
\* printf("%d") of a natural number
FmtD(n) == IF n < 10 THEN <<Digits[n + 1]>>
           ELSE Append(FmtD(n \div 10), Digits[(n % 10) + 1])

\* printf("%f") of a whole number
FmtF(n) == FmtD(n) \o <<".", "0", "0", "0", "0", "0", "0">>

Upper == <<"A", "B", "C", "D", "E", "F", "G", "H", "I", "J", "K", "L", "M",
           "N", "O", "P", "Q", "R", "S", "T", "U", "V", "W", "X", "Y", "Z">>
Lower == <<"a", "b", "c", "d", "e", "f", "g", "h", "i", "j", "k", "l", "m",
           "n", "o", "p", "q", "r", "s", "t", "u", "v", "w", "x", "y", "z">>

ToLower(c) == IF \E k \in 1..Len(Upper) : Upper[k] = c
              THEN Lower[CHOOSE k \in 1..Len(Upper) : Upper[k] = c]
              ELSE c

\* str::Eq and str::EqI on two texts
StrEq(a, b) == a = b
StrEqI(a, b) == /\ Len(a) = Len(b)
                /\ \A k \in 1..Len(a) : ToLower(a[k]) = ToLower(b[k])

\* the literals of the file format
T_file == <<"f", "i", "l", "e">>
T_title == <<"t", "i", "t", "l", "e">>
T_fontBold == <<"f", "o", "n", "t", ":", "b", "o", "l", "d">>
T_fontItalic == <<"f", "o", "n", "t", ":", "i", "t", "a", "l", "i", "c">>
T_openDefault == <<"o", "p", "e", "n", "-", "d", "e", "f", "a", "u", "l", "t">>
T_openToggled == <<"o", "p", "e", "n", "-", "t", "o", "g", "g", "l", "e", "d">>
T_unchecked == <<"u", "n", "c", "h", "e", "c", "k", "e", "d">>
T_page == <<"p", "a", "g", "e", ":">>
T_color == <<"c", "o", "l", "o", "r", ":", "#">>
T_destkind == <<"d", "e", "s", "t", "k", "i", "n", "d", ":">>
T_destname == <<"d", "e", "s", "t", "n", "a", "m", "e">>
T_destvalue == <<"d", "e", "s", "t", "v", "a", "l", "u", "e">>
T_destpage == <<"d", "e", "s", "t", "p", "a", "g", "e", ":">>
T_destrect == <<"d", "e", "s", "t", "r", "e", "c", "t", ":">>
T_defaultView == <<"d", "e", "f", "a", "u", "l", "t", SP, "v", "i", "e", "w">>
T_nullText == <<"(", "n", "u", "l", "l", ")">>

(***************************************************************************)
(* String-view utilities (namespace sv)                                    *)
(***************************************************************************)
\* the least element of a non-empty set of numbers
Least(S) == CHOOSE x \in S : \A y \in S : x <= y

\* how many c the text starts with
CountLeading(s, c) ==
    LET other == {k \in 1..Len(s) : s[k] # c}
    IN IF other = {} THEN Len(s) ELSE Least(other) - 1

\* skips all c at the start of the view; returns the count and the new view
SkipChars(s, c) ==
    LET n == CountLeading(s, c) IN [n |-> n, sv |-> SubSeq(s, n + 1, Len(s))]

\* index of the first c in s at or after k; Len(s) + 1 when there is none
IndexOf(s, c, k) ==
    LET hits == {j \in k..Len(s) : s[j] = c}
    IN IF hits = {} THEN Len(s) + 1 ELSE Least(hits)

\* the part of the view before the first delim; the view skips it and the delim
ParseUntil(s, delim) ==
    LET k == IndexOf(s, delim, 1)
    IN [part |-> SubSeq(s, 1, k - 1), sv |-> SubSeq(s, k + 1, Len(s))]

RECURSIVE TrimRight(_)
TrimRight(s) ==
    IF s # << >> /\ s[Len(s)] = SP THEN TrimRight(SubSeq(s, 1, Len(s) - 1)) ELSE s

TrimSpace(s) == TrimRight(SkipChars(s, SP).sv)

\* "key: value" gives the trimmed value when the key matches, else nothing
ParseKV(s, key) ==
    LET a == SkipChars(s, SP).sv
        k == IF IndexOf(a, ":", 1) < IndexOf(a, SP, 1)
             THEN IndexOf(a, ":", 1) ELSE IndexOf(a, SP, 1)
        rest == SubSeq(a, k, Len(a))
    IN IF SubSeq(a, 1, k - 1) # key THEN << >>
       ELSE TrimSpace(IF rest # << >> /\ Head(rest) = ":" THEN Tail(rest) ELSE rest)

RECURSIVE Escaped(_)
Escaped(s) ==
    IF s = << >> THEN << >>
    ELSE (IF Head(s) \in {QUOTE, BSLASH} THEN <<BSLASH, Head(s)>> ELSE <<Head(s)>>)
         \o Escaped(Tail(s))

\* appends s in double quotes, with every \ and " prefixed by a backslash
AppendQuotedString(s, out) == out \o <<QUOTE>> \o Escaped(s) \o <<QUOTE>>

(***************************************************************************)
(* Colors                                                                  *)
(***************************************************************************)
\* the sentinel of a color that is not set; no RGB value
ColorUnset == -1

RECURSIVE FmtHex(_, _)
\* n in hexadecimal, w digits wide
FmtHex(n, w) == IF w = 0 THEN << >>
                ELSE Append(FmtHex(n \div 16, w - 1), HexDigits[(n % 16) + 1])

IsHex(c) == \E k \in 1..Len(HexDigits) : HexDigits[k] = c
HexVal(c) == (CHOOSE k \in 1..Len(HexDigits) : HexDigits[k] = c) - 1

RECURSIVE ParseHex(_, _)
ParseHex(s, acc) == IF s = << >> THEN acc
                    ELSE ParseHex(Tail(s), acc * 16 + HexVal(Head(s)))

\* the token of a color: color:#rrggbb
SerializeColor(c, out) == out \o T_color \o FmtHex(c, 6)

ParseColor(s) ==
    LET hex == SubSeq(s, Len(T_color) + 1, Len(s))
    IN IF IsPrefix(T_color, s) /\ Len(hex) = 6 /\ \A k \in 1..6 : IsHex(hex[k])
       THEN [c |-> ParseHex(hex, 0), ok |-> TRUE]
       ELSE [c |-> 0, ok |-> FALSE]

parseColor(s) == ParseColor(s)

(***************************************************************************)
(* Outline nodes                                                           *)
(***************************************************************************)
fontBitBold == "fontBitBold"
fontBitItalic == "fontBitItalic"

\* bit::Set and bit::IsSet on a set of bits
BitSet(flags, bit) == flags \cup {bit}
BitIsSet(flags, bit) == bit \in flags

\* a DocTocItem as its constructor leaves it
NewDocTocItem ==
    [title |-> << >>, fontFlags |-> {}, color |-> ColorUnset, pageNo |-> 0,
     isOpenDefault |-> FALSE, isOpenToggled |-> FALSE, isUnchecked |-> FALSE,
     dest |-> Null, child |-> 0, next |-> 0]

RECURSIVE LastSibling(_, _)
LastSibling(h, n) == IF h[n].next = 0 THEN n ELSE LastSibling(h, h[n].next)

\* DocTocItem::AddSibling: appends at the end of the sibling chain of n
AddSibling(h, n, sibling) ==
    LET last == LastSibling(h, n) IN [h EXCEPT ![last].next = sibling]

(***************************************************************************)
(* parseLineTitle: parses "quoted string"                                  *)
(***************************************************************************)
RECURSIVE titleLoopSkipsQuote(_, _, _)
\* as titleLoop, but an escaped character is dropped instead of kept
titleLoopSkipsQuote(data, s, r) ==
    IF s > Len(data) THEN [res |-> r, sv |-> data]
    ELSE LET c == data[s] IN
         IF c = QUOTE THEN [res |-> r, sv |-> SubSeq(data, s + 1, Len(data))]
         ELSE IF c # BSLASH THEN titleLoopSkipsQuote(data, s + 1, Append(r, c))
         ELSE IF s + 1 > Len(data) THEN [res |-> r, sv |-> data]
         ELSE titleLoopSkipsQuote(data, s + 2, r)

parseLineTitleDropsEscaped(s) ==
    IF Len(s) < 2 THEN [res |-> << >>, sv |-> s]
    ELSE IF s[1] # QUOTE THEN [res |-> << >>, sv |-> s]
    ELSE titleLoopSkipsQuote(s, 2, << >>)

RECURSIVE titleLoop(_, _, _)
\* the while loop: data is the view, s the position (1-based), r the result
titleLoop(data, s, r) ==
    IF s > Len(data) THEN [res |-> r, sv |-> data]
    ELSE LET c == data[s] IN
         IF c = QUOTE
         THEN \* the end
              [res |-> r, sv |-> SubSeq(data, s + 1, Len(data))]
         ELSE IF c # BSLASH THEN titleLoop(data, s + 1, Append(r, c))
         ELSE \* potentially un-escape
              IF s + 1 > Len(data) THEN [res |-> r, sv |-> data]
              ELSE LET c2 == data[s + 1] IN
                   IF ~(c2 = BSLASH \/ c2 = QUOTE)
                   THEN titleLoop(data, s + 1, Append(r, c))
                   ELSE titleLoop(data, s + 2, Append(r, c2))

\* returns the decoded text and the view as the call leaves it
parseLineTitle(s) ==
    IF Len(s) < 2 THEN [res |-> << >>, sv |-> s]
    ELSE IF s[1] # QUOTE THEN [res |-> << >>, sv |-> s]
    ELSE titleLoop(s, 2, << >>)

(***************************************************************************)
(* parseBookmarksLine: indentation "quoted title" additional-metadata*     *)
(***************************************************************************)
\* one round of the metadata loop on the token `part`
applyPart(r, part) ==
    IF StrEq(part, T_fontBold)
    THEN [r EXCEPT !.fontFlags = BitSet(r.fontFlags, fontBitBold)]
    ELSE IF StrEq(part, T_fontItalic)
    THEN [r EXCEPT !.fontFlags = BitSet(r.fontFlags, fontBitItalic)]
    ELSE IF parseColor(part).ok THEN [r EXCEPT !.color = parseColor(part).c]
    ELSE IF StrEqI(part, T_openDefault) THEN [r EXCEPT !.isOpenDefault = TRUE]
    ELSE IF StrEqI(part, T_openToggled) THEN [r EXCEPT !.isOpenToggled = TRUE]
    ELSE IF StrEq(part, T_unchecked) THEN [r EXCEPT !.isUnchecked = TRUE]
    ELSE r

RECURSIVE metaLoop(_, _)
\* while (line.size() > 0) { part = sv::ParseUntil(line, ' '); ... }
metaLoop(ln, r) ==
    IF Len(ln) = 0 THEN r
    ELSE LET p == ParseUntil(ln, SP) IN metaLoop(p.sv, applyPart(r, p.part))

\* Null for nullptr; else the new item, *indentOut, and the view `line` as
\* parseLineTitle left it for the metadata loop
parseBookmarksLine(ln) ==
    LET sk == SkipChars(ln, SP)
        indent == sk.n
    IN IF indent % 2 # 0 THEN Null
       ELSE LET ln2 == SkipChars(sk.sv, SP).sv
                t == parseLineTitle(ln2)
                r0 == [NewDocTocItem EXCEPT !.title = t.res]
            IN [item |-> metaLoop(t.sv, r0), indent |-> indent \div 2, meta |-> t.sv]

(***************************************************************************)
(* The line parser on its own: a line is drawn, then parseLineTitle and    *)
(* parseBookmarksLine are applied to it.                                   *)
(***************************************************************************)
Pending == [pending |-> TRUE]
NoTree == [noTree |-> TRUE]
NoVec == [noVec |-> TRUE]

RawAlphabet == {SP, QUOTE, BSLASH, "a"}

T_glow == <<"g", "l", "o", "w", ":", "s", "h", "i", "n", "y">>
T_page3 == T_page \o FmtD(3)
T_blue == SerializeColor(255, << >>)
T_OpenToggled == <<"O", "p", "e", "n", "-", "T", "o", "g", "g", "l", "e", "d">>

UnknownTokens == {T_glow}
FieldTokens == {T_fontBold, T_fontItalic, T_blue, T_page3, T_openDefault,
                T_openToggled, T_OpenToggled, T_unchecked}
TitleForms == {<<QUOTE, "a", QUOTE>>, <<QUOTE, QUOTE>>}
Rests == {<< >>, <<SP>> \o T_fontBold, <<QUOTE>>, <<BSLASH>>, <<SP, QUOTE, "a", QUOTE>>}

RECURSIVE JoinTokens(_)
JoinTokens(toks) ==
    IF toks = << >> THEN << >> ELSE <<SP>> \o Head(toks) \o JoinTokens(Tail(toks))

MkLine(spaces, title, toks) == Spaces(spaces) \o title \o JoinTokens(toks)

RECURSIVE WithoutUnknown(_)
WithoutUnknown(toks) ==
    IF toks = << >> THEN << >>
    ELSE (IF Head(toks) \in UnknownTokens THEN << >> ELSE <<Head(toks)>>)
         \o WithoutUnknown(Tail(toks))

LineInputs ==
    [kind : {"raw"}, text : SeqsUpTo(RawAlphabet, MaxRawLen)]
    \cup [kind : {"quoted"}, s : SeqsUpTo(RawAlphabet, MaxStrLen), rest : Rests]
    \cup [kind : {"tokens"}, spaces : 0..MaxSpaces, title : TitleForms,
          toks : SeqsUpTo(FieldTokens \cup UnknownTokens, MaxTokens)]

LineOf(x) ==
    CASE x.kind = "raw" -> x.text
      [] x.kind = "quoted" -> AppendQuotedString(x.s, << >>) \o x.rest
      [] x.kind = "tokens" -> MkLine(x.spaces, x.title, x.toks)

\* the variables of the document machine, at rest
DocIdle ==
    /\ disk = << >> /\ sv = << >> /\ file = << >> /\ items = << >> /\ i = 0
    /\ nodes = << >> /\ dels = << >> /\ tree = NoTree /\ treeDels = 0
    /\ res = NoVec /\ ret = Pending /\ bookmarks = << >>

LineIdle == line = << >> /\ titleOut = Pending /\ itemOut = Pending

docVars == <<disk, sv, file, items, i, nodes, dels, tree, treeDels, res, ret,
             bookmarks>>
lineVars == <<line, titleOut, itemOut>>

InitLine ==
    /\ inp \in LineInputs
    /\ line = LineOf(inp)
    /\ titleOut = Pending /\ itemOut = Pending
    /\ pc = "line"
    /\ DocIdle

CallParseLineTitle ==
    /\ pc = "line" /\ titleOut = Pending
    /\ titleOut' = parseLineTitle(line)
    /\ UNCHANGED <<pc, line, itemOut, inp, docVars>>

CallParseBookmarksLine ==
    /\ pc = "line" /\ itemOut = Pending
    /\ itemOut' = parseBookmarksLine(line)
    /\ UNCHANGED <<pc, line, titleOut, inp, docVars>>

NextLine == CallParseLineTitle \/ CallParseBookmarksLine

SpecLine == InitLine /\ [][NextLine]_vars

\* C6: decoding the quoted form of a string s, followed by any text, returns
\* exactly s and leaves the view just past the closing quote.
QuotedRoundTrip ==
    (inp.kind = "quoted" /\ titleOut # Pending)
        => (titleOut.res = inp.s /\ titleOut.sv = inp.rest)

\* a string with both a quote and a backslash was decoded, text following it
QuotedRoundTripWitness ==
    /\ inp.kind = "quoted" /\ titleOut # Pending
    /\ Len(inp.s) = MaxStrLen
    /\ \E a, b \in 1..Len(inp.s) : inp.s[a] = QUOTE /\ inp.s[b] = BSLASH
    /\ inp.rest # << >>
    /\ titleOut.res = inp.s

\* what the text after the indentation is when it is no quoted title: shorter
\* than two characters, not starting with a quote, or without a closing quote
RECURSIVE HasClosingQuote(_, _)
HasClosingQuote(s, k) ==
    IF k > Len(s) THEN FALSE
    ELSE IF s[k] = QUOTE THEN TRUE
    ELSE IF s[k] = BSLASH /\ k < Len(s) /\ s[k + 1] \in {QUOTE, BSLASH}
         THEN HasClosingQuote(s, k + 2)
    ELSE HasClosingQuote(s, k + 1)

Undecodable(s) == Len(s) < 2 \/ s[1] # QUOTE \/ ~HasClosingQuote(s, 2)

AfterIndent(ln) == SkipChars(ln, SP).sv

\* C10: a line with even indentation whose remainder is no quoted title still
\* parses, with an empty title and the remainder handed on unmodified.
UndecodableTitleIsEmpty ==
    (itemOut # Pending /\ SkipChars(line, SP).n % 2 = 0 /\ Undecodable(AfterIndent(line)))
        => /\ itemOut # Null
           /\ itemOut.item.title = << >>
           /\ itemOut.meta = AfterIndent(line)

\* C8: an unknown token never fails the line, changes nothing of the node, and
\* every field token of the line format on the line is populated.
UnknownTokenTolerance ==
    (inp.kind = "tokens" /\ inp.spaces % 2 = 0 /\ itemOut # Pending)
        => /\ itemOut # Null
           /\ itemOut.item
                = parseBookmarksLine(MkLine(inp.spaces, inp.title,
                                            WithoutUnknown(inp.toks))).item
           /\ \A k \in 1..Len(inp.toks) :
                LET tok == inp.toks[k] n == itemOut.item IN
                /\ tok = T_fontBold => BitIsSet(n.fontFlags, fontBitBold)
                /\ tok = T_fontItalic => BitIsSet(n.fontFlags, fontBitItalic)
                /\ tok = T_blue => n.color = 255
                /\ tok = T_page3 => n.pageNo = 3
                /\ tok = T_openDefault => n.isOpenDefault
                /\ tok \in {T_openToggled, T_OpenToggled} => n.isOpenToggled
                /\ tok = T_unchecked => n.isUnchecked

(***************************************************************************)
(* Object lifetime                                                         *)
(***************************************************************************)
\* a DocTocTree as its constructor leaves it
NewDocTocTree == [name |-> Null, filePath |-> Null, root |-> 0]

RECURSIVE deleteItem(_, _, _)
\* delete of a DocTocItem: the destructor deletes the child and the siblings
deleteItem(h, d, n) ==
    IF n = 0 THEN d
    ELSE LET d1 == [d EXCEPT ![n] = @ + 1]
             d2 == deleteItem(h, d1, h[n].child)
         IN deleteItem(h, d2, h[n].next)

\* as deleteItems, but no item is deleted
deleteItemsKeepsAll(h, d, its) == d

RECURSIVE deleteItems(_, _, _)
\* for (auto& el : items) { delete el.item; }
deleteItems(h, d, its) ==
    IF its = << >> THEN d
    ELSE deleteItems(h, deleteItem(h, d, Head(its).item), Tail(its))

(***************************************************************************)
(* parseBookmarks                                                          *)
(***************************************************************************)
\* as parseHeaders, but the title header is read and never checked
parseHeadersNoTitleCheck(s) ==
    LET l1 == ParseUntil(s, NL)
        f == ParseKV(l1.part, T_file)
        l2 == ParseUntil(l1.sv, NL)
    IN IF f = << >>
       THEN [ok |-> FALSE, file |-> f, title |-> << >>, sv |-> l1.sv]
       ELSE [ok |-> TRUE, file |-> f, title |-> ParseKV(l2.part, T_title), sv |-> l2.sv]

\* the two header lines: "file: $file", then "title: $title"
parseHeaders(s) ==
    LET l1 == ParseUntil(s, NL)
        f == ParseKV(l1.part, T_file)
    IN IF f = << >>
       THEN [ok |-> FALSE, file |-> f, title |-> << >>, sv |-> l1.sv]
       ELSE LET l2 == ParseUntil(l1.sv, NL)
                ti == ParseKV(l2.part, T_title)
            IN [ok |-> ti # << >>, file |-> f, title |-> ti, sv |-> l2.sv]

RECURSIVE backScan(_, _, _, _)
\* for (int j = i - 1; j >= 0; j--): `prev` is a reference to items[i - 1],
\* so `prev = items[j]` stores a copy of items[j] in items[i - 1].
\* its is 1-based: items[k] of the code is its[k + 1].
backScan(h, its, k, j) ==
    IF j < 0 THEN [nodes |-> h, items |-> its, didFound |-> FALSE]
    ELSE LET its2 == [its EXCEPT ![k] = its[j + 1]]
             prev == its2[k]
             curr == its2[k + 1]
         IN IF prev.indent = curr.indent
            THEN [nodes |-> AddSibling(h, prev.item, curr.item), items |-> its2,
                  didFound |-> TRUE]
            ELSE backScan(h, its2, k, j - 1)

\* as attachDedent, without the fallback to the root
attachDedentNoFallback(h, its, root, k) ==
    LET b == backScan(h, its, k, k - 1) IN [nodes |-> b.nodes, items |-> b.items]

\* as attachDedent, but the node becomes the child of the entry found
attachDedentAsChild(h, its, root, k) ==
    LET b == backScan(h, its, k, k - 1)
    IN IF b.didFound
       THEN [nodes |-> [h EXCEPT ![b.items[k].item].child = its[k + 1].item],
             items |-> b.items]
       ELSE [nodes |-> AddSibling(b.nodes, root, its[k + 1].item), items |-> b.items]

\* the branch of a lesser indent (a -> a2)
attachDedent(h, its, root, k) ==
    LET b == backScan(h, its, k, k - 1)
    IN IF b.didFound THEN [nodes |-> b.nodes, items |-> b.items]
       ELSE [nodes |-> AddSibling(b.nodes, root, its[k + 1].item), items |-> b.items]

\* one round of the reconstruction loop, for the 0-based index k
reconstructStep(h, its, root, k) ==
    LET curr == its[k + 1]
        prev == its[k]
        item == curr.item
    IN IF prev.indent = curr.indent
       THEN [nodes |-> [h EXCEPT ![prev.item].next = item], items |-> its]
       ELSE IF curr.indent > prev.indent
       THEN [nodes |-> [h EXCEPT ![prev.item].child = item], items |-> its]
       ELSE attachDedent(h, its, root, k)

\* LoadAlterenativeBookmarks up to the call of parseBookmarks; ParseBookmarksFile
\* reads the file and passes its contents on
LoadStart ==
    /\ pc = "load"
    /\ res' = [vec |-> << >>]
    /\ sv' = disk
    /\ pc' = "headers"
    /\ UNCHANGED <<disk, file, items, i, nodes, dels, tree, treeDels, ret, bookmarks,
                   lineVars, inp>>

ParseHeaders ==
    /\ pc = "headers"
    /\ LET h == parseHeaders(sv) IN
        /\ sv' = h.sv
        /\ file' = h.file
        /\ IF h.ok
           THEN /\ tree' = [NewDocTocTree EXCEPT !.name = [str |-> h.title]]
                /\ pc' = "lines"
           ELSE /\ tree' = tree
                /\ pc' = "fail"
    /\ UNCHANGED <<disk, items, i, nodes, dels, treeDels, res, ret, bookmarks,
                   lineVars, inp>>

\* one round of the while (true) loop over the entry lines
ParseEntry ==
    /\ pc = "lines"
    /\ LET p == ParseUntil(sv, NL) IN
        /\ sv' = p.sv
        /\ IF p.part = << >>
           THEN /\ pc' = "check"
                /\ UNCHANGED <<items, nodes, dels, treeDels>>
           ELSE LET r == parseBookmarksLine(p.part) IN
                IF r = Null
                THEN /\ dels' = deleteItems(nodes, dels, items)
                     /\ treeDels' = treeDels + 1
                     /\ pc' = "fail"
                     /\ UNCHANGED <<items, nodes>>
                ELSE /\ nodes' = Append(nodes, r.item)
                     /\ dels' = Append(dels, 0)
                     /\ items' = Append(items, [item |-> Len(nodes) + 1,
                                                indent |-> r.indent])
                     /\ pc' = pc
                     /\ UNCHANGED treeDels
    /\ UNCHANGED <<disk, file, i, tree, res, ret, bookmarks, lineVars, inp>>

\* nItems == 0 fails; else the first item is the root
CheckItems ==
    /\ pc = "check"
    /\ IF Len(items) = 0
       THEN /\ dels' = deleteItems(nodes, dels, items)
            /\ treeDels' = treeDels + 1
            /\ pc' = "fail"
            /\ UNCHANGED <<tree, i>>
       ELSE /\ tree' = [tree EXCEPT !.root = items[1].item]
            /\ i' = 1
            /\ pc' = "rec"
            /\ UNCHANGED <<dels, treeDels>>
    /\ UNCHANGED <<disk, sv, file, items, nodes, res, ret, bookmarks, lineVars, inp>>

ReconstructStep ==
    /\ pc = "rec"
    /\ i < Len(items)
    /\ LET r == reconstructStep(nodes, items, tree.root, i) IN
        /\ nodes' = r.nodes
        /\ items' = r.items
    /\ i' = i + 1
    /\ UNCHANGED <<pc, disk, sv, file, dels, tree, treeDels, res, ret, bookmarks,
                   lineVars, inp>>

\* the loop is over: the tree goes into a new Bookmarks, appended to bkms
FinishParse ==
    /\ pc = "rec"
    /\ ~(i < Len(items))
    /\ res' = [vec |-> Append(res.vec, [toc |-> tree])]
    /\ pc' = "ok"
    /\ UNCHANGED <<disk, sv, file, items, i, nodes, dels, tree, treeDels, ret,
                   bookmarks, lineVars, inp>>

\* LoadAlterenativeBookmarks after the call: no collection on failure
LoadReturn ==
    /\ pc \in {"ok", "fail"}
    /\ IF pc = "fail"
       THEN /\ IF res.vec # << >>
               THEN /\ treeDels' = treeDels + 1
                    /\ dels' = deleteItem(nodes, dels, tree.root)
               ELSE UNCHANGED <<treeDels, dels>>
            /\ res' = NoVec
            /\ ret' = Null
       ELSE /\ ret' = res
            /\ UNCHANGED <<res, treeDels, dels>>
    /\ pc' = "returned"
    /\ UNCHANGED <<disk, sv, file, items, i, nodes, tree, bookmarks, lineVars, inp>>

(***************************************************************************)
(* Serializer                                                              *)
(***************************************************************************)
\* RectD::empty
RectEmpty(r) == r.dx = 0 \/ r.dy = 0

SerializeKeyVal(key, val, s) ==
    IF val = Null THEN s
    ELSE AppendQuotedString(val.str, s \o <<SP>> \o key \o <<":">>)

SerializeDest(dest, s) ==
    IF dest = Null THEN s
    ELSE LET s1 == s \o <<SP>> \o T_destkind \o dest.kind
             s2 == SerializeKeyVal(T_destname, dest.name, s1)
             s3 == SerializeKeyVal(T_destvalue, dest.value, s2)
             s4 == IF dest.pageNo > 0
                   THEN s3 \o <<SP>> \o T_destpage \o FmtD(dest.pageNo) ELSE s3
             r == dest.rect
         IN IF ~RectEmpty(r)
            THEN s4 \o <<SP>> \o T_destrect \o FmtF(r.x) \o <<",">> \o FmtF(r.y)
                    \o <<",">> \o FmtF(r.dx) \o <<",">> \o FmtF(r.dy)
            ELSE s4

\* the line of one node: the body of the while loop up to the line break
serializeNode(n, level, s) ==
    LET s1 == AppendQuotedString(n.title, s \o Spaces(2 * level))
        s2 == IF BitIsSet(n.fontFlags, fontBitItalic)
              THEN s1 \o <<SP>> \o T_fontItalic ELSE s1
        s3 == IF BitIsSet(n.fontFlags, fontBitBold)
              THEN s2 \o <<SP>> \o T_fontBold ELSE s2
        s4 == IF n.color # ColorUnset THEN SerializeColor(n.color, s3 \o <<SP>>) ELSE s3
        s5 == IF n.pageNo # 0 THEN s4 \o <<SP>> \o T_page \o FmtD(n.pageNo) ELSE s4
        s6 == IF n.isOpenDefault THEN s5 \o <<SP>> \o T_openDefault ELSE s5
        s7 == IF n.isOpenDefault THEN s6 \o <<SP>> \o T_openToggled ELSE s6
        s8 == IF n.isUnchecked THEN s7 \o <<SP, SP>> \o T_unchecked ELSE s7
    IN SerializeDest(n.dest, s8) \o <<NL>>

RECURSIVE SerializeBookmarksRec(_, _, _, _)
RECURSIVE serializeSiblings(_, _, _, _)

\* while (node) { ...; SerializeBookmarksRec(node->child, level + 1, s); node = node->next; }
serializeSiblings(h, node, level, s) ==
    IF node = 0 THEN s
    ELSE serializeSiblings(h, h[node].next, level,
             SerializeBookmarksRec(h, h[node].child, level + 1,
                                   serializeNode(h[node], level, s)))

SerializeBookmarksRec(h, node, level, s) ==
    serializeSiblings(h, node, level,
        IF level = 0 THEN s \o T_title \o <<":", SP>> \o T_defaultView \o <<NL>> ELSE s)

\* what AppendFmt("file: %s\n", path) can append: a null path is outside the
\* contract of %s, the call prints a placeholder or faults
fileLineOutcomes(path) ==
    IF path = Null
    THEN {[crash |-> FALSE, text |-> T_file \o <<":", SP>> \o T_nullText \o <<NL>>],
          [crash |-> TRUE, text |-> << >>]}
    ELSE {[crash |-> FALSE, text |-> T_file \o <<":", SP>> \o path.str \o <<NL>>]}

\* ExportBookmarksToFile for a collection of at most one Bookmarks
ExportBookmarksToFile(coll, after) ==
    IF coll = << >>
    THEN disk' = << >> /\ pc' = after
    ELSE \E o \in fileLineOutcomes(coll[1].toc.filePath) :
            IF o.crash
            THEN disk' = disk /\ pc' = "crashed"
            ELSE /\ disk' = SerializeBookmarksRec(nodes, coll[1].toc.root, 0, o.text)
                 /\ pc' = after

\* the application exports the collection it loaded
ExportLoaded ==
    /\ pc = "returned"
    /\ ret # Null
    /\ ExportBookmarksToFile(ret.vec, "exported")
    /\ UNCHANGED <<sv, file, items, i, nodes, dels, tree, treeDels, res, ret,
                   bookmarks, lineVars, inp>>

\* the application exports a collection it holds; the file is loaded next
ExportHeld ==
    /\ pc = "export"
    /\ ExportBookmarksToFile(bookmarks, "load")
    /\ UNCHANGED <<sv, file, items, i, nodes, dels, tree, treeDels, res, ret,
                   bookmarks, lineVars, inp>>

(***************************************************************************)
(* Reference reconstruction with a stack of open ancestors                 *)
(***************************************************************************)
RECURSIVE popWhile(_, _, _)
\* pops while the indent of the top is >= cur
popWhile(stack, levels, cur) ==
    IF stack # << >> /\ levels[stack[Len(stack)]] >= cur
    THEN popWhile(SubSeq(stack, 1, Len(stack) - 1), levels, cur)
    ELSE stack

RECURSIVE stackParents(_, _, _, _)
\* the parent of every entry (0: top level)
stackParents(levels, k, stack, par) ==
    IF k > Len(levels) THEN par
    ELSE LET st == popWhile(stack, levels, levels[k])
         IN stackParents(levels, k + 1, Append(st, k),
                         Append(par, IF st = << >> THEN 0 ELSE st[Len(st)]))

StackParents(levels) == stackParents(levels, 1, << >>, << >>)

MinOrZero(S) == IF S = {} THEN 0 ELSE Least(S)

\* child and next links of the tree with these parents, children in file order
StackChild(par, n) == MinOrZero({k \in 1..Len(par) : par[k] = n})
StackNext(par, n) == MinOrZero({k \in (n + 1)..Len(par) : par[k] = par[n]})

\* first indent 0 and every later indent at most one more than the one before
WellFormed(levels) ==
    /\ levels # << >>
    /\ levels[1] = 0
    /\ \A k \in 2..Len(levels) : levels[k] <= levels[k - 1] + 1

(***************************************************************************)
(* Loading a .bkm file, then exporting what was loaded                     *)
(***************************************************************************)
T_fiel == <<"f", "i", "e", "l">>
Missing == [missing |-> TRUE]

\* a header line: a key, a colon and a value that may be empty; or no line
HeaderForms == [key : {T_file, T_title, T_fiel}, val : {<< >>, <<"v">>}] \cup {Missing}
\* an entry line: leading spaces, then a quoted title or nothing
EntryForms == [spaces : 0..MaxSpaces, titled : BOOLEAN]

A_title == <<QUOTE, "a", QUOTE>>

HeaderText(h) ==
    IF h = Missing THEN << >>
    ELSE h.key \o <<":">> \o (IF h.val = << >> THEN << >> ELSE <<SP>> \o h.val) \o <<NL>>

EntryText(e) == Spaces(e.spaces) \o (IF e.titled THEN A_title ELSE << >>) \o <<NL>>

RECURSIVE EntriesText(_)
EntriesText(es) == IF es = << >> THEN << >> ELSE EntryText(Head(es)) \o EntriesText(Tail(es))

RECURSIVE LevelsText(_)
LevelsText(ls) ==
    IF ls = << >> THEN << >>
    ELSE Spaces(2 * Head(ls)) \o A_title \o <<NL>> \o LevelsText(Tail(ls))

GoodFile == [key |-> T_file, val |-> <<"f">>]
GoodTitle == [key |-> T_title, val |-> <<"t">>]

DocInputs ==
    [kind : {"tree"}, levels : SeqsUpTo(0..MaxLevel, MaxEntries)]
    \cup [kind : {"hdr"}, h1 : HeaderForms, h2 : HeaderForms]
    \cup [kind : {"ent"}, entries : SeqsUpTo(EntryForms, MaxBadEntries)]

DocText(x) ==
    CASE x.kind = "tree" ->
            HeaderText(GoodFile) \o HeaderText(GoodTitle) \o LevelsText(x.levels)
      [] x.kind = "hdr" ->
            HeaderText(x.h1) \o HeaderText(x.h2) \o LevelsText(<<0, 1>>)
      [] x.kind = "ent" ->
            HeaderText(GoodFile) \o HeaderText(GoodTitle) \o EntriesText(x.entries)

Init ==
    /\ inp \in DocInputs
    /\ pc = "load"
    /\ disk = DocText(inp)
    /\ sv = << >> /\ file = << >> /\ items = << >> /\ i = 0
    /\ nodes = << >> /\ dels = << >> /\ tree = NoTree /\ treeDels = 0
    /\ res = NoVec /\ ret = Pending /\ bookmarks = << >>
    /\ LineIdle

Next ==
    \/ LoadStart
    \/ ParseHeaders
    \/ ParseEntry
    \/ CheckItems
    \/ ReconstructStep
    \/ FinishParse
    \/ LoadReturn
    \/ ExportLoaded

Spec == Init /\ [][Next]_vars

(***************************************************************************)
(* Exporting a collection, then loading the file written                   *)
(***************************************************************************)
D_named == [kind |-> <<"k">>, name |-> [str |-> <<"n">>], value |-> Null,
            rect |-> [x |-> 0, y |-> 0, dx |-> 0, dy |-> 0]]
D_rect == [kind |-> <<"k">>, name |-> Null, value |-> [str |-> <<"v">>],
           rect |-> [x |-> 1, y |-> 2, dx |-> 3, dy |-> 4]]

DestsFor(page) ==
    {Null} \cup {[kind |-> d.kind, name |-> d.name, value |-> d.value,
                  pageNo |-> page, rect |-> d.rect] : d \in {D_named, D_rect}}

\* DocTocItem::PageNumbersMatch
PageNumbersMatch(n) == n.dest = Null \/ n.dest.pageNo = n.pageNo

NodeForms ==
    {n \in [title : {<<"a">>, <<"a", SP, QUOTE, BSLASH>>},
            fontFlags : SUBSET {fontBitBold, fontBitItalic},
            color : {ColorUnset, 255},
            pageNo : {0, 3},
            isOpenDefault : BOOLEAN, isOpenToggled : BOOLEAN, isUnchecked : BOOLEAN,
            dest : DestsFor(0) \cup DestsFor(3),
            child : {0}, next : {0}] : PageNumbersMatch(n)}

RTInputs ==
    [kind : {"rt"},
     levels : {ls \in SeqsUpTo(0..(MaxTreeNodes - 1), MaxTreeNodes) : WellFormed(ls)},
     last : NodeForms]

\* the heap of the tree with these levels: plain nodes titled a, the last one
\* carrying the drawn fields
HeapOf(x) ==
    LET par == StackParents(x.levels)
        n == Len(x.levels)
    IN [k \in 1..n |->
          [(IF k = n THEN x.last ELSE [NewDocTocItem EXCEPT !.title = <<"a">>])
             EXCEPT !.child = StackChild(par, k), !.next = StackNext(par, k)]]

InitRT ==
    /\ inp \in RTInputs
    /\ pc = "export"
    /\ nodes = HeapOf(inp)
    /\ dels = [k \in 1..Len(inp.levels) |-> 0]
    /\ bookmarks = <<[toc |-> [name |-> [str |-> <<"t">>],
                               filePath |-> [str |-> <<"f">>], root |-> 1]]>>
    /\ disk = << >> /\ sv = << >> /\ file = << >> /\ items = << >> /\ i = 0
    /\ tree = NoTree /\ treeDels = 0 /\ res = NoVec /\ ret = Pending
    /\ LineIdle

NextRT ==
    \/ ExportHeld
    \/ LoadStart
    \/ ParseHeaders
    \/ ParseEntry
    \/ CheckItems
    \/ ReconstructStep
    \/ FinishParse
    \/ LoadReturn

SpecRT == InitRT /\ [][NextRT]_vars

(***************************************************************************)
(* Properties                                                              *)
(***************************************************************************)
RECURSIVE Chain(_, _)
\* the nodes of the sibling chain that starts at n
Chain(h, n) == IF n = 0 THEN {} ELSE {n} \cup Chain(h, h[n].next)

RECURSIVE Reach(_, _)
\* the nodes reachable from the set S through child and next links
Reach(h, S) ==
    LET more == S \cup {h[n].child : n \in S} \cup {h[n].next : n \in S}
        step == more \ {0}
    IN IF step = S THEN S ELSE Reach(h, step)

\* the links that point to n
Owners(h, n) ==
    {<<m, "child">> : m \in {k \in 1..Len(h) : h[k].child = n}}
    \cup {<<m, "next">> : m \in {k \in 1..Len(h) : h[k].next = n}}

RECURSIVE TreeEq(_, _, _)
\* the trees at a and b agree in every field and in shape
TreeEq(h, a, b) ==
    IF a = 0 \/ b = 0 THEN a = b
    ELSE /\ h[a].title = h[b].title
         /\ h[a].fontFlags = h[b].fontFlags
         /\ h[a].color = h[b].color
         /\ h[a].pageNo = h[b].pageNo
         /\ h[a].isOpenDefault = h[b].isOpenDefault
         /\ h[a].isOpenToggled = h[b].isOpenToggled
         /\ h[a].isUnchecked = h[b].isUnchecked
         /\ h[a].dest = h[b].dest
         /\ TreeEq(h, h[a].child, h[b].child)
         /\ TreeEq(h, h[a].next, h[b].next)

\* C1: parsing what the serializer wrote for a tree gives a tree equal to it
\* field for field and in shape.
RoundTrip ==
    pc = "returned"
        => /\ ret # Null
           /\ Len(ret.vec) = 1
           /\ TreeEq(nodes, bookmarks[1].toc.root, ret.vec[1].toc.root)

\* C2: an entry with a lesser indent than the one before it ends up in the
\* sibling chain of the nearest earlier entry with its indent, and in the
\* sibling chain of the root only when there is no such entry.
DedentRule ==
    (pc = "ok" /\ inp.kind = "tree")
        => \A k \in 2..Len(inp.levels) :
             inp.levels[k] < inp.levels[k - 1]
                => LET same == {j \in 1..(k - 1) : inp.levels[j] = inp.levels[k]}
                       nearest == CHOOSE j \in same : \A m \in same : m <= j
                   IN IF same # {}
                      THEN k \in Chain(nodes, nearest)
                      ELSE k \in Chain(nodes, tree.root)

IsGoodFile(h) == h # Missing /\ h.key = T_file /\ h.val # << >>
IsGoodTitle(h) == h # Missing /\ h.key = T_title /\ h.val # << >>

\* C3: unless the first line is a file header and the second a title header,
\* both with a value, the parse fails before a node or the tree exists, nothing
\* is appended and the load returns no collection.
HeaderGate ==
    (inp.kind = "hdr" /\ ~(IsGoodFile(inp.h1) /\ IsGoodTitle(inp.h2)))
        => /\ pc \in {"load", "headers", "fail", "returned"}
           /\ nodes = << >>
           /\ tree = NoTree
           /\ res # NoVec => res.vec = << >>
           /\ pc = "returned" => ret = Null

\* the title header came first and the file header second: the load failed
HeaderGateWitness ==
    /\ inp.kind = "hdr"
    /\ IsGoodTitle(inp.h1) /\ IsGoodFile(inp.h2)
    /\ pc = "returned" /\ ret = Null

\* the first entry with an odd indent, no blank line before it; 0 if none
FirstOdd(es) ==
    LET odd == {k \in 1..Len(es) :
                  /\ es[k].spaces % 2 = 1
                  /\ \A j \in 1..(k - 1) : es[j].spaces > 0 \/ es[j].titled}
    IN IF odd = {} THEN 0 ELSE Least(odd)

\* C4: an entry with an odd indent before the first blank line fails the parse:
\* nothing is appended, no collection is returned, and every node made from the
\* lines before it, and the tree, is deleted exactly once.
AbortReleasesAll ==
    (inp.kind = "ent" /\ FirstOdd(inp.entries) # 0)
        => /\ pc \in {"load", "headers", "lines", "fail", "returned"}
           /\ res # NoVec => res.vec = << >>
           /\ \A n \in 1..Len(nodes) : dels[n] <= 1
           /\ treeDels <= 1
           /\ pc \in {"fail", "returned"}
                => /\ Len(nodes) = FirstOdd(inp.entries) - 1
                   /\ \A n \in 1..Len(nodes) : dels[n] = 1
                   /\ treeDels = 1
           /\ pc = "returned" => ret = Null

\* the last entry had the odd indent: the nodes before it and the tree were deleted
AbortReleasesAllWitness ==
    /\ inp.kind = "ent" /\ FirstOdd(inp.entries) = MaxBadEntries
    /\ pc = "returned" /\ ret = Null
    /\ Len(nodes) = MaxBadEntries - 1
    /\ \A n \in 1..Len(nodes) : dels[n] = 1
    /\ treeDels = 1

\* C5: after a successful parse every node is reachable from the root and every
\* node but the root is the child or the next of exactly one node.
SingleOwner ==
    (pc = "ok" /\ inp.kind \in {"tree", "ent"})
        => /\ Len(nodes) >= 1
           /\ tree.root = 1
           /\ Reach(nodes, {tree.root}) = 1..Len(nodes)
           /\ Owners(nodes, tree.root) = {}
           /\ \A n \in 2..Len(nodes) : Cardinality(Owners(nodes, n)) = 1

\* a level was skipped and an entry fell back to an indent never seen before
SingleOwnerWitness ==
    /\ pc = "ok" /\ inp.kind = "tree"
    /\ Len(inp.levels) = MaxEntries
    /\ \E k \in 2..Len(inp.levels) : inp.levels[k] > inp.levels[k - 1] + 1
    /\ \E k \in 2..Len(inp.levels) :
         /\ inp.levels[k] < inp.levels[k - 1]
         /\ \A j \in 1..(k - 1) : inp.levels[j] # inp.levels[k]

\* C7: the document of a successful parse records the value of the file header
\* as its path and the value of the title header as its name, and its export
\* starts with the same file line.
DocCarriesHeaders ==
    LET fileValue == IF inp.kind = "hdr" THEN inp.h1.val ELSE GoodFile.val
        titleValue == IF inp.kind = "hdr" THEN inp.h2.val ELSE GoodTitle.val
        fileLine == T_file \o <<":", SP>> \o fileValue \o <<NL>>
    IN /\ pc = "ok" => /\ res.vec[1].toc.filePath = [str |-> fileValue]
                       /\ res.vec[1].toc.name = [str |-> titleValue]
       /\ pc = "exported" => IsPrefix(fileLine, disk)

\* C9: on well-formed input the links built are those of the reconstruction
\* with a stack of open ancestors.
StackEquivalence ==
    (pc = "ok" /\ inp.kind = "tree" /\ WellFormed(inp.levels))
        => LET par == StackParents(inp.levels)
           IN \A n \in 1..Len(nodes) :
                /\ nodes[n].child = StackChild(par, n)
                /\ nodes[n].next = StackNext(par, n)

\* a well-formed list of the greatest length with two dedents was parsed
StackEquivalenceWitness ==
    /\ pc = "ok" /\ inp.kind = "tree" /\ WellFormed(inp.levels)
    /\ Len(inp.levels) = MaxEntries
    /\ Cardinality({k \in 2..Len(inp.levels) : inp.levels[k] < inp.levels[k - 1]}) >= 2

====
